---- MODULE Spec2Model ----
(***************************************************************************)
(* State-machine model of PyLTSpice/LTSpice_RawWrite.py: the Trace helper  *)
(* class and the LTSpiceRawWrite class (add_trace, save,                   *)
(* add_traces_from_raw with its axis-synchronisation loop).                *)
(***************************************************************************)
EXTENDS Integers, Sequences, FiniteSets, TLC

(***************************************************************************)
(* Numbers.  Sample values are fixed-point numbers counted in units of     *)
(* 1e-11 and held in two limbs <<hi, lo>> (value = hi * NBase + lo, with   *)
(* 0 <= lo < NBase), so that 4.0 and 1.0000000001 are both exact.          *)
(***************************************************************************)
NBase == 1000 * 1000

\* n whole units (1.0 = 10^11 fixed-point units = 10^5 * NBase).
Whole(n) == <<n * 100000, 0>>

\* n thousandths.
Milli(n) == <<n * 100, 0>>

\* n * 1e-11.
Tiny(n) == <<0, n>>

Zero == <<0, 0>>

NumAdd(a, b) ==
    IF a[2] + b[2] >= NBase THEN <<a[1] + b[1] + 1, a[2] + b[2] - NBase>>
    ELSE <<a[1] + b[1], a[2] + b[2]>>

\* b - a, as in "error = other_axis[i] - my_axis[e]".
NumSub(b, a) ==
    IF b[2] - a[2] < 0 THEN <<b[1] - a[1] - 1, b[2] - a[2] + NBase>>
    ELSE <<b[1] - a[1], b[2] - a[2]>>

NumLess(a, b) == a[1] < b[1] \/ (a[1] = b[1] /\ a[2] < b[2])

NumNeg(a) == IF a[2] = 0 THEN <<-a[1], 0>> ELSE <<-a[1] - 1, NBase - a[2]>>

\* abs(x)
NumAbs(a) == IF NumLess(a, Zero) THEN NumNeg(a) ELSE a

(***************************************************************************)
(* Trace.__init__: the datatype is decided by the name alone.              *)
(***************************************************************************)
TraceType(name) ==
    IF name = "time" THEN "time"
    ELSE IF name = "frequency" THEN "frequency"
    ELSE "voltage"

Trace(name, data) == [name |-> name, type |-> TraceType(name), data |-> data]

\* The value Python's None takes for plot_name.
None == "<None>"

\* "self.plot_name or default": None and '' are both falsy.
OrDefault(pn, default) == IF pn = None \/ pn = "" THEN default ELSE pn

(***************************************************************************)
(* State of one LTSpiceRawWrite object (__init__), the record of the last  *)
(* call made on it, and the position inside add_traces_from_raw.           *)
(***************************************************************************)
VARIABLES
    traces,           \* self._traces
    plot_name,        \* self.plot_name
    flag_numtype,     \* self.flag_numtype
    flag_fastaccess,  \* self.flag_fastaccess
    pc,               \* "idle" between calls, "loop" inside the axis-sync while
                      \* loop, "returned" when a call has just ended
    call,             \* the last call: operation, arguments, state before, outcome
    merges,           \* how many add_traces_from_raw calls have succeeded so far
    loc               \* locals of add_traces_from_raw while pc = "loop"

vars == <<traces, plot_name, flag_numtype, flag_fastaccess, pc, call, merges, loc>>

\* The object's fields a call can change, as they were when the call began.
Snapshot == [traces |-> traces, plot_name |-> plot_name, flag_numtype |-> flag_numtype]

NoLoc == [i |-> 0, e |-> 0]

NoCall == [op |-> "", args |-> <<>>, before |-> <<>>, result |-> "", bytes |-> 0]

\* The sequence s with every element equal to an earlier one dropped: the key
\* order of a dict filled by assigning s[1], s[2], ... in turn.
RECURSIVE DictKeys(_)
DictKeys(s) ==
    IF s = <<>> THEN <<>>
    ELSE LET front == DictKeys(SubSeq(s, 1, Len(s) - 1))
             last == s[Len(s)]
         IN IF \E k \in 1..Len(front) : front[k] = last THEN front
            ELSE Append(front, last)

(***************************************************************************)
(* add_trace                                                               *)
(***************************************************************************)
\* The branch taken for the first trace: the default title and the numeric
\* flag per axis type; "ValueError" for a type that cannot be an axis.
FirstTraceRule(type) ==
    IF type = "time" THEN [err |-> "ok", title |-> "Time Transient", numtype |-> "real"]
    ELSE IF type = "frequency" THEN [err |-> "ok", title |-> "AC Analysis", numtype |-> "complex"]
    ELSE IF type \in {"voltage", "current"}
        THEN [err |-> "ok", title |-> "DC transfer characteristic", numtype |-> "real"]
    ELSE IF type = "param" THEN [err |-> "ok", title |-> "Operating Point", numtype |-> "real"]
    ELSE [err |-> "ValueError", title |-> "", numtype |-> ""]

\* True when add_trace takes the first-trace branch.
IsFirstTrace == plot_name = None \/ Len(traces) = 0

\* The size check of a later trace passes.
SameSizeAsTrace0(trace) == Len(traces[1].data) = Len(trace.data)

add_trace(trace) ==
    /\ pc = "idle"
    /\ LET rule == FirstTraceRule(trace.type)
           res == IF IsFirstTrace THEN rule.err
                  ELSE IF SameSizeAsTrace0(trace) THEN "ok" ELSE "IndexError"
       IN /\ call' = [op |-> "add_trace", args |-> [trace |-> trace],
                      before |-> Snapshot, result |-> res, bytes |-> 0]
          /\ IF res = "ok"
             THEN /\ traces' = Append(traces, trace)
                  /\ IF IsFirstTrace
                     THEN /\ plot_name' = OrDefault(plot_name, rule.title)
                          /\ flag_numtype' = rule.numtype
                     ELSE UNCHANGED <<plot_name, flag_numtype>>
             ELSE UNCHANGED <<traces, plot_name, flag_numtype>>
    /\ pc' = "returned"
    /\ loc' = NoLoc
    /\ UNCHANGED <<flag_fastaccess, merges>>

(***************************************************************************)
(* save: the binary payload.                                               *)
(***************************************************************************)
_format_for_trace(datatype) ==
    IF datatype = "time" THEN "d"
    ELSE IF datatype = "frequency" THEN "dd"
    ELSE "f"

\* struct.pack(fmt, value) with the single value save passes: the number of
\* bytes produced, or -1 where pack raises struct.error because the format
\* asks for two values.
Pack(fmt) == IF fmt = "d" THEN 8 ELSE IF fmt = "f" THEN 4 ELSE -1

\* The (trace, sample) pairs in the order the fast-access branch visits them:
\* "for trace in self._traces: for value in trace.data".
RECURSIVE FastOrder(_, _)
FastOrder(trs, t) ==
    IF t > Len(trs) THEN <<>>
    ELSE [j \in 1..Len(trs[t].data) |-> <<t, j>>] \o FastOrder(trs, t + 1)

\* ... and in the order of the normal branch:
\* "for i in range(len(self._traces[0])): for trace in self._traces".
NormalOrder(trs) ==
    [p \in 1..(Len(trs[1].data) * Len(trs)) |->
        <<((p - 1) % Len(trs)) + 1, ((p - 1) \div Len(trs)) + 1>>]

\* Writing the elements order[k..]: trace[i] raises IndexError past the end of
\* the trace's data, pack raises struct.error, otherwise the bytes add up.
RECURSIVE WritePayload(_, _, _, _)
WritePayload(trs, order, k, total) ==
    IF k > Len(order) THEN [err |-> "ok", bytes |-> total]
    ELSE LET tr == trs[order[k][1]]
             n == Pack(_format_for_trace(tr.type))
         IN IF order[k][2] > Len(tr.data) THEN [err |-> "IndexError", bytes |-> total]
            ELSE IF n < 0 THEN [err |-> "StructError", bytes |-> total]
            ELSE WritePayload(trs, order, k + 1, total + n)

\* The payload save writes for the trace list trs under a layout flag.
Payload(trs, fastaccess) ==
    IF Len(trs) = 0 THEN [err |-> "IndexError", bytes |-> 0]  \* len(self._traces[0]) in the header
    ELSE IF fastaccess THEN WritePayload(trs, FastOrder(trs, 1), 1, 0)
    ELSE WritePayload(trs, NormalOrder(trs), 1, 0)

save ==
    /\ pc = "idle"
    /\ LET out == Payload(traces, flag_fastaccess)
       IN call' = [op |-> "save", args |-> [fastaccess |-> flag_fastaccess],
                   before |-> Snapshot, result |-> out.err, bytes |-> out.bytes]
    /\ pc' = "returned"
    /\ loc' = NoLoc
    /\ UNCHANGED <<traces, plot_name, flag_numtype, flag_fastaccess, merges>>

(***************************************************************************)
(* add_traces_from_raw.  The foreign source `other` (an LTSpiceRawRead) is *)
(* a record: flags (its 'Flags' property split on ' '), trace0 (name and   *)
(* type of its trace 0) and points (the axis of step 0).  What its methods *)
(* return is computed from these by get_axis and get_wave.                 *)
(***************************************************************************)
Steps == 0..1

\* other.get_axis(step): the axis of a later step is the first one moved on.
get_axis(other, step) ==
    [j \in 1..Len(other.points) |-> NumAdd(other.points[j], Whole(10 * step))]

\* other.get_trace(name).get_wave(step).  A well-formed source: every trace
\* is as long as the axis, and every sample of a source is a different number.
get_wave(other, name, step) ==
    [j \in 1..Len(other.points) |->
        Whole((IF name = "V(out)" THEN 100 ELSE 200) + 10 * step + j)]

\* The for/else over the flags: the first 'real' or 'complex', else 'real'.
RECURSIVE FlagNumType(_)
FlagNumType(flags) ==
    IF flags = <<>> THEN "real"
    ELSE IF Head(flags) \in {"real", "complex"} THEN Head(flags)
    ELSE FlagNumType(Tail(flags))

\* Faulty variant of TypeCheck: the operands of the "or" in the other order, so that
\* self._traces[0] is evaluated before the flags are compared.
TypeCheckAxisFirst(other) ==
    IF Len(traces) = 0 THEN "IndexError"
    ELSE IF traces[1].type # other.trace0.type
            \/ flag_numtype # FlagNumType(other.flags) THEN "ValueError"
    ELSE "ok"

\* The type check that opens the method: "ok", "ValueError" when it raises,
\* "IndexError" when evaluating self._traces[0] raises on an empty list.  The
\* "or" evaluates its right operand only when the flags are equal.
TypeCheck(other) ==
    IF flag_numtype # FlagNumType(other.flags) THEN "ValueError"
    ELSE IF Len(traces) = 0 THEN "IndexError"
    ELSE IF traces[1].type # other.trace0.type THEN "ValueError"
    ELSE "ok"

\* rename_format.format(name): fmt is the template cut at its "{}" fields.
RECURSIVE StrFormat(_, _)
StrFormat(fmt, name) ==
    IF fmt = <<>> THEN ""
    ELSE (IF Head(fmt) = "{}" THEN name ELSE Head(fmt)) \o StrFormat(Tail(fmt), name)

\* self._traces after "if len(self._traces) == 0": the axis copied from other.
SeedAxis(other, from_step) ==
    IF Len(traces) = 0 THEN <<Trace(other.trace0.name, get_axis(other, from_step))>>
    ELSE traces

\* Faulty variant of AppendDirect: the waves are read with get_wave() and no step, as
\* the axis is on line 216.
RECURSIVE AppendDirectStep0(_, _, _, _, _)
AppendDirectStep0(trs, other, trace_filter, rename_format, from_step) ==
    IF trace_filter = <<>> THEN trs
    ELSE AppendDirectStep0(
            Append(trs, Trace(StrFormat(rename_format, Head(trace_filter)),
                              get_wave(other, Head(trace_filter), 0))),
            other, Tail(trace_filter), rename_format, from_step)

\* The direct branch: one new trace per name of trace_filter, appended to trs.
RECURSIVE AppendDirect(_, _, _, _, _)
AppendDirect(trs, other, trace_filter, rename_format, from_step) ==
    IF trace_filter = <<>> THEN trs
    ELSE AppendDirect(
            Append(trs, Trace(StrFormat(rename_format, Head(trace_filter)),
                              get_wave(other, Head(trace_filter), from_step))),
            other, Tail(trace_filter), rename_format, from_step)

\* self.get_trace(name).get_wave(): the data of the first trace of that name.
FirstNamed(trs, name) ==
    trs[CHOOSE k \in 1..Len(trs) :
            /\ trs[k].name = name
            /\ \A j \in 1..(k - 1) : trs[j].name # name].data

\* The locals set up before the while loop (lines 223-237).
SyncLocals(trs, other, trace_filter, kw) ==
    LET inkeys == DictKeys(trace_filter)
        exkeys == DictKeys([k \in 1..(Len(trs) - 1) |-> trs[k + 1].name])
    IN [i |-> 0, e |-> 0, new_axis |-> <<>>,
        incoming_keys |-> inkeys,
        incoming_data |-> [n \in {inkeys[k] : k \in 1..Len(inkeys)} |-> get_wave(other, n, kw.step)],
        new_traces |-> [n \in {inkeys[k] : k \in 1..Len(inkeys)} |-> <<>>],
        existing_keys |-> exkeys,
        existing_data |-> [n \in {exkeys[k] : k \in 1..Len(exkeys)} |-> FirstNamed(trs, n)],
        updated_traces |-> [n \in {exkeys[k] : k \in 1..Len(exkeys)} |-> <<>>],
        axis_name |-> trs[1].name,
        my_axis |-> trs[1].data,
        other_axis |-> get_axis(other, 0),
        admissible_error |-> kw.admissible_error]

\* Faulty variant of MergeOutcome: line 218 tests force_axis_alignment alone, so a
\* fixed timestep without alignment falls through to the direct branch.
MergeOutcomeForceOnly(chk, fixed, force, sized) ==
    IF chk # "ok" THEN chk
    ELSE IF force
        THEN (IF fixed THEN "NotImplementedError" ELSE "running")
    ELSE IF sized THEN "ok" ELSE "AssertionError"

\* The path the method takes after its keyword arguments are read (lines
\* 203-204 and 218-267): the exception raised, "running" for the while loop,
\* "ok" for the direct branch.
MergeOutcome(chk, fixed, force, sized) ==
    IF chk # "ok" THEN chk
    ELSE IF force \/ fixed
        THEN (IF fixed THEN "NotImplementedError" ELSE "running")
    ELSE IF sized THEN "ok" ELSE "AssertionError"

\* The call up to the while loop, and the whole call on the other paths.
add_traces_from_raw(other, trace_filter, kw) ==
    /\ pc = "idle"
    /\ LET chk == TypeCheck(other)
           seeded == SeedAxis(other, kw.step)
           force == IF Len(traces) = 0 THEN FALSE ELSE kw.force_axis_alignment
           fixed == NumLess(Zero, kw.fixed_timestep)
           sized == Len(seeded[1].data) = Len(get_axis(other, 0))
           res == MergeOutcome(chk, fixed, force, sized)
       IN /\ call' = [op |-> "add_traces_from_raw",
                      args |-> [other |-> other, trace_filter |-> trace_filter, kw |-> kw],
                      before |-> Snapshot, result |-> res, bytes |-> 0]
          /\ traces' = IF chk # "ok" THEN traces
                       ELSE IF res = "ok"
                           THEN AppendDirect(seeded, other, trace_filter,
                                             kw.rename_format, kw.step)
                       ELSE seeded
          /\ pc' = IF res = "running" THEN "loop" ELSE "returned"
          /\ merges' = IF res = "ok" THEN merges + 1 ELSE merges
          /\ loc' = IF res = "running" THEN SyncLocals(seeded, other, trace_filter, kw)
                    ELSE NoLoc
    /\ UNCHANGED <<plot_name, flag_numtype, flag_fastaccess>>

\* Faulty variant of SyncCond: the cursors run to the end of the axes, not one short.
SyncCondWholeAxis == loc.e < Len(loc.my_axis) /\ loc.i < Len(loc.other_axis)

\* The while condition.
SyncCond == loc.e < Len(loc.my_axis) - 1 /\ loc.i < Len(loc.other_axis) - 1

\* One pass of the cursor part of the loop body (lines 240-251): the sample
\* appended to new_axis and the cursors after it.
SyncAdvance(l) ==
    LET error == NumSub(l.other_axis[l.i + 1], l.my_axis[l.e + 1])
    IN IF NumLess(NumAbs(error), l.admissible_error)
       THEN [x |-> l.my_axis[l.e + 1], i |-> l.i + 1, e |-> l.e + 1]
       ELSE IF NumLess(error, Zero)
       THEN [x |-> l.other_axis[l.i + 1], i |-> l.i + 1, e |-> l.e]
       ELSE [x |-> l.my_axis[l.e + 1], i |-> l.i, e |-> l.e + 1]

\* data[idx] for every key is a valid subscript (idx counts from 0).
ReadsInRange(data, idx) == \A n \in DOMAIN data : idx < Len(data[n])

\* One iteration of the while loop.  A subscript past the end of a trace
\* raises IndexError; the method has changed nothing of self by then.
sync_step ==
    /\ pc = "loop"
    /\ SyncCond
    /\ LET adv == SyncAdvance(loc)
       IN IF ReadsInRange(loc.incoming_data, adv.i) /\ ReadsInRange(loc.existing_data, adv.e)
          THEN /\ loc' = [loc EXCEPT
                            !.i = adv.i, !.e = adv.e,
                            !.new_axis = Append(@, adv.x),
                            !.new_traces = [n \in DOMAIN @ |->
                                              Append(@[n], loc.incoming_data[n][adv.i + 1])],
                            !.updated_traces = [n \in DOMAIN @ |->
                                              Append(@[n], loc.existing_data[n][adv.e + 1])]]
               /\ UNCHANGED <<pc, call>>
          ELSE /\ loc' = NoLoc
               /\ pc' = "returned"
               /\ call' = [call EXCEPT !.result = "IndexError"]
    /\ UNCHANGED <<traces, plot_name, flag_numtype, flag_fastaccess, merges>>

\* The trace list rebuilt after the loop (lines 257-264).
Rebuild(l) ==
    <<Trace(l.axis_name, l.new_axis)>>
    \o [k \in 1..Len(l.incoming_keys) |->
            Trace(l.incoming_keys[k], l.incoming_data[l.incoming_keys[k]])]
    \o [k \in 1..Len(l.existing_keys) |->
            Trace(l.existing_keys[k], l.existing_data[l.existing_keys[k]])]

\* The loop ends and the method returns.
sync_done ==
    /\ pc = "loop"
    /\ ~SyncCond
    /\ traces' = Rebuild(loc)
    /\ call' = [call EXCEPT !.result = "ok"]
    /\ pc' = "returned"
    /\ loc' = loc   \* the locals as they are when the method returns
    /\ merges' = merges + 1
    /\ UNCHANGED <<plot_name, flag_numtype, flag_fastaccess>>

(***************************************************************************)
(* The calls explored: their arguments are drawn from the sets below.      *)
(***************************************************************************)
\* The trace list never grows past this many traces.
MaxTraces == 3

\* No further add_traces_from_raw call once this many have succeeded.
MaxMerges == 2

LocalNames == {"time", "frequency", "N001"}

LocalWaves ==
    { <<Whole(5), Whole(6)>>,
      <<Whole(2), Whole(4), Whole(5)>>,
      <<Whole(0), Whole(1), Whole(2), Whole(3)>> }

ForeignNames == {"V(out)", "I(R1)"}

ForeignFlags == { <<"real">>, <<"fastaccess", "complex">>, <<"stepped">> }

\* [0, 1.0000000001, 2, 4]
ForeignAxes == { <<Whole(0), NumAdd(Whole(1), Tiny(10)), Whole(2), Whole(4)>> }

Source(flags, kind, axis) ==
    [flags |-> flags, trace0 |-> [name |-> kind, type |-> kind], points |-> axis]

Sources == { Source(f, k, a) : f \in ForeignFlags, k \in {"time", "frequency"}, a \in ForeignAxes }

Filters == { <<>>, <<"V(out)">>, <<"V(out)", "I(R1)">> }

RenameFormats == { <<"{}">>, <<"{}", "_b">> }

\* 1e-9 and 2.5
AdmissibleErrors == { Tiny(100), Milli(2500) }

\* The keyword arguments: admissible_error varies where the axes are aligned,
\* rename_format where they are not.
Kwargs ==
    { kw \in [force_axis_alignment : BOOLEAN,
              admissible_error : AdmissibleErrors,
              rename_format : RenameFormats,
              step : Steps,
              fixed_timestep : {Zero, Tiny(100)}] :
        /\ kw.force_axis_alignment => kw.rename_format = <<"{}">> /\ kw.step = 0
        /\ ~kw.force_axis_alignment => kw.admissible_error = Tiny(100)
        /\ NumLess(Zero, kw.fixed_timestep) =>
              kw.step = 0 /\ kw.rename_format = <<"{}">> /\ kw.admissible_error = Tiny(100) }

Init ==
    /\ traces = <<>>
    /\ plot_name \in {"", None}
    /\ flag_numtype = "real"
    /\ flag_fastaccess \in BOOLEAN
    /\ pc = "idle"
    /\ call = NoCall
    /\ merges = 0
    /\ loc = NoLoc

AddTraceCall ==
    \E name \in LocalNames, data \in LocalWaves :
        /\ Len(traces) < MaxTraces
        /\ add_trace(Trace(name, data))

SaveCall == save

MergeCall ==
    \E other \in Sources, trace_filter \in Filters, kw \in Kwargs :
        /\ Len(traces) + Len(trace_filter) <= MaxTraces
        /\ merges < MaxMerges
        /\ add_traces_from_raw(other, trace_filter, kw)

\* The caller has seen the outcome of the call; the object is ready for the next.
Return ==
    /\ pc = "returned"
    /\ pc' = "idle"
    /\ call' = NoCall
    /\ loc' = NoLoc
    /\ UNCHANGED <<traces, plot_name, flag_numtype, flag_fastaccess, merges>>

Next == AddTraceCall \/ SaveCall \/ MergeCall \/ sync_step \/ sync_done \/ Return

Spec == Init /\ [][Next]_vars

(***************************************************************************)
(* Properties.  A call's arguments, the object as it was before the call   *)
(* and the outcome are read from `call` once the call has returned.        *)
(***************************************************************************)
MergeReturned == pc = "returned" /\ call.op = "add_traces_from_raw"

FixedRequested == NumLess(Zero, call.args.kw.fixed_timestep)

\* The numeric-type flag of a Flags property as the specification words it:
\* its first 'real' or 'complex' token, 'real' when it has none.
ForeignNumType(flags) ==
    LET hits == {k \in 1..Len(flags) : flags[k] \in {"real", "complex"}}
    IN IF hits = {} THEN "real"
       ELSE flags[CHOOSE k \in hits : \A j \in hits : k <= j]

\* The type precondition of the call that has returned held when it began.
TypesMatched ==
    /\ call.before.traces # <<>>
    /\ call.before.flag_numtype = ForeignNumType(call.args.other.flags)
    /\ call.before.traces[1].type = call.args.other.trace0.type

\* The call that has returned changed nothing of the object.
SetUnchanged ==
    /\ traces = call.before.traces
    /\ plot_name = call.before.plot_name
    /\ flag_numtype = call.before.flag_numtype

AllSameLength(trs) == \A k \in 1..Len(trs) : Len(trs[k].data) = Len(trs[1].data)

\* C1: in every reachable state all traces of the set have as many samples as
\* trace 0, and add_trace of a later trace of another length fails and leaves
\* the set unchanged.
C1_EqualLengths ==
    /\ AllSameLength(traces)
    /\ (/\ pc = "returned"
        /\ call.op = "add_trace"
        /\ call.before.traces # <<>>
        /\ Len(call.args.trace.data) # Len(call.before.traces[1].data))
       => (call.result # "ok" /\ SetUnchanged)

C3_TypeMismatchNoMutation ==
    (/\ MergeReturned
     /\ ForeignNumType(call.args.other.flags) # call.before.flag_numtype)
    => (call.result = "ValueError" /\ SetUnchanged)

\* C3 witness: the call was made on the empty set with foreign flags
\* "fastaccess complex" and raised the type-mismatch error.
C3_Witness ==
    /\ MergeReturned
    /\ call.before.traces = <<>>
    /\ call.args.other.flags = <<"fastaccess", "complex">>
    /\ call.before.flag_numtype = "real"
    /\ call.result = "ValueError"

\* The regression scenario of C4: A = [0,1,2,3], B = [0,1.0000000001,2,4],
\* admissible_error = 1e-9, axes aligned, and the call has succeeded.
C4_Scenario ==
    /\ MergeReturned
    /\ call.result = "ok"
    /\ call.args.kw.force_axis_alignment
    /\ call.args.kw.admissible_error = Tiny(100)
    /\ call.before.traces[1].data = <<Whole(0), Whole(1), Whole(2), Whole(3)>>
    /\ get_axis(call.args.other, 0)
         = <<Whole(0), NumAdd(Whole(1), Tiny(10)), Whole(2), Whole(4)>>

\* C4 (as stated): in that scenario the unified axis, the new trace 0, is
\* [0,1,2,3].
C4_UnifiedAxis0123 ==
    C4_Scenario => traces[1].data = <<Whole(0), Whole(1), Whole(2), Whole(3)>>

\* C4 (amended): in that scenario the unified axis, the new trace 0, is
\* [0,1,2]: the loop ends after three steps with both cursors on their last
\* sample, which is never appended.
C4_UnifiedAxis012 ==
    C4_Scenario =>
        /\ traces[1].data = <<Whole(0), Whole(1), Whole(2)>>
        /\ traces[1].name = call.before.traces[1].name
        /\ loc.e = 3 /\ loc.i = 3

\* C4 witness: the scenario has been run.
C4_Witness == C4_Scenario /\ Len(traces[1].data) = 3

\* The call that has returned ran with force_axis_alignment off and no fixed
\* timestep, on a non-empty set.
DirectModeCall ==
    /\ MergeReturned
    /\ ~call.args.kw.force_axis_alignment
    /\ ~FixedRequested
    /\ call.before.traces # <<>>

\* What direct mode is to leave: the previous traces, then one trace per
\* requested name, in request order, renamed, with the foreign values at step.
DirectModeResult ==
    IF Len(call.before.traces[1].data) # Len(get_axis(call.args.other, 0))
    THEN call.result # "ok" /\ traces = call.before.traces
    ELSE /\ call.result = "ok"
         /\ Len(traces) = Len(call.before.traces) + Len(call.args.trace_filter)
         /\ SubSeq(traces, 1, Len(call.before.traces)) = call.before.traces
         /\ \A k \in 1..Len(call.args.trace_filter) :
              LET new == traces[Len(call.before.traces) + k]
              IN /\ new.name = StrFormat(call.args.kw.rename_format,
                                         call.args.trace_filter[k])
                 /\ new.data = get_wave(call.args.other, call.args.trace_filter[k],
                                        call.args.kw.step)

\* C5 (as stated): a direct-mode merge on a non-empty set fails and changes
\* nothing when the two axes differ in sample count, and otherwise appends the
\* requested foreign traces, verbatim at the requested step and renamed, after
\* the unchanged previous traces.
C5_DirectMode == DirectModeCall => DirectModeResult

\* C5 (amended): the same, for a set whose numeric-type flag and axis kind
\* equal the foreign source's; when they differ the call fails with the
\* type-mismatch error and changes nothing.
C5_DirectModeTypesMatched ==
    DirectModeCall =>
        IF TypesMatched THEN DirectModeResult
        ELSE call.result = "ValueError" /\ SetUnchanged

\* C5 witness: two traces were imported from step 1 under a renaming format.
C5_Witness ==
    /\ DirectModeCall
    /\ call.result = "ok"
    /\ call.args.trace_filter = <<"V(out)", "I(R1)">>
    /\ call.args.kw.step = 1
    /\ call.args.kw.rename_format = <<"{}", "_b">>
    /\ traces[3].name = "I(R1)_b"

\* C6: on a set without traces, with equal numeric-type flags and no fixed
\* timestep, the call succeeds: trace 0 is a copy of the foreign axis at the
\* requested step and the requested traces follow as in direct mode, whatever
\* force_axis_alignment was passed.
C6_EmptySetSeeded ==
    (/\ MergeReturned
     /\ call.before.traces = <<>>
     /\ call.before.flag_numtype = ForeignNumType(call.args.other.flags)
     /\ ~FixedRequested)
    => /\ call.result = "ok"
       /\ Len(traces) = 1 + Len(call.args.trace_filter)
       /\ traces[1].data = get_axis(call.args.other, call.args.kw.step)
       /\ \A k \in 1..Len(call.args.trace_filter) :
            /\ traces[1 + k].name = StrFormat(call.args.kw.rename_format,
                                              call.args.trace_filter[k])
            /\ traces[1 + k].data = get_wave(call.args.other, call.args.trace_filter[k],
                                             call.args.kw.step)

\* Bytes per sample as the specification gives them.
ElementWidth(type) == IF type = "time" THEN 8 ELSE IF type = "frequency" THEN 16 ELSE 4

RECURSIVE SumOfWidths(_)
SumOfWidths(trs) ==
    IF trs = <<>> THEN 0 ELSE ElementWidth(Head(trs).type) + SumOfWidths(Tail(trs))

\* C7: save of a non-empty set writes a payload of the same length in the
\* fast-access and in the normal layout, and that length is the sum over the
\* traces of the element width times the length of trace 0 ("No. Points").
C7_PayloadLength ==
    (pc = "returned" /\ call.op = "save" /\ traces # <<>>) =>
        LET expected == [err |-> "ok", bytes |-> SumOfWidths(traces) * Len(traces[1].data)]
        IN /\ Payload(traces, TRUE) = expected
           /\ Payload(traces, FALSE) = expected
           /\ call.result = "ok"
           /\ call.bytes = expected.bytes

\* A call that aligned the axes has returned successfully.
SyncReturned ==
    /\ MergeReturned
    /\ call.result = "ok"
    /\ call.args.kw.force_axis_alignment
    /\ call.before.traces # <<>>

\* C8: after an aligning merge of k loop steps the set is the unified axis U
\* under the old axis name, then the requested incoming traces in request
\* order, then the previous non-axis traces in their order, each holding the k
\* samples read at its cursor after each step.
C8_RebuiltFromResampled ==
    SyncReturned =>
        LET old == call.before.traces
            inc == call.args.trace_filter
        IN /\ Len(traces) = Len(inc) + Len(old)
           /\ traces[1].name = old[1].name
           /\ traces[1].data = loc.new_axis
           /\ \A k \in 1..Len(traces) : Len(traces[k].data) = Len(loc.new_axis)
           /\ \A k \in 1..Len(inc) :
                /\ traces[1 + k].name = inc[k]
                /\ traces[1 + k].data = loc.new_traces[inc[k]]
           /\ \A k \in 2..Len(old) :
                /\ traces[Len(inc) + k].name = old[k].name
                /\ traces[Len(inc) + k].data = loc.updated_traces[old[k].name]

\* The samples s[1..Len(s)-1]: all but the last.
AllButLast(s) == {s[k] : k \in 1..(Len(s) - 1)}

\* C9: for axes of length m >= 1 and n >= 1 the cursors stay within
\* 0..m-1 and 0..n-1 during the loop, every sample read is at a valid index
\* (no IndexError comes out of the loop), no element of U is the last sample
\* of either axis, and the loop has stopped with e = m-1 or i = n-1.
C9_LoopInRange ==
    /\ (pc = "loop" /\ Len(loc.my_axis) >= 1 /\ Len(loc.other_axis) >= 1) =>
          /\ 0 <= loc.e /\ loc.e <= Len(loc.my_axis) - 1
          /\ 0 <= loc.i /\ loc.i <= Len(loc.other_axis) - 1
          /\ \A k \in 1..Len(loc.new_axis) :
                loc.new_axis[k] \in AllButLast(loc.my_axis) \cup AllButLast(loc.other_axis)
    /\ (MergeReturned /\ call.args.kw.force_axis_alignment /\ ~FixedRequested /\ TypesMatched)
          => call.result = "ok"
    /\ SyncReturned =>
          \/ loc.e = Len(loc.my_axis) - 1
          \/ loc.i = Len(loc.other_axis) - 1

StrictlyIncreasing(s) == \A k \in 1..(Len(s) - 1) : NumLess(s[k], s[k + 1])

NonDecreasing(s) == \A k \in 1..(Len(s) - 1) : ~NumLess(s[k + 1], s[k])

\* C10: when the local and the foreign axis are both strictly increasing and
\* admissible_error is positive, the unified axis is non-decreasing.
C10_UnifiedAxisMonotone ==
    (/\ SyncReturned
     /\ StrictlyIncreasing(call.before.traces[1].data)
     /\ StrictlyIncreasing(get_axis(call.args.other, 0))
     /\ NumLess(Zero, call.args.kw.admissible_error))
    => NonDecreasing(traces[1].data)

====
